---------------------------- MODULE Spec2Model ----------------------------
(***************************************************************************)
(* Model of the moeflavor/onboarding front end.                            *)
(*                                                                         *)
(*   src/src/components/QuizViewer.tsx       QuizViewer, LessonViewer and  *)
(*                                           MoeFlavorTrainingPortal       *)
(*   src/src/components/PixelParkLanding.tsx the landing scene             *)
(*                                                                         *)
(* Five specifications share the variables:                                *)
(*   SpecProgress  the portal's progression functions, the two completion  *)
(*                 handlers being called with any id                       *)
(*   SpecPortal    the portal with its lesson and quiz viewers, driven by  *)
(*                 the clicks the rendered views offer                     *)
(*   SpecPark      the landing scene: key events, animation frames,        *)
(*                 React commits and the unmount                           *)
(*   SpecScene     the landing scene entered at several places of the park *)
(*   SpecWalk      the landing scene walked step by step over the whole    *)
(*                 park                                                    *)
(* Numbers that JavaScript holds as doubles (score, progress) are held as  *)
(* exact fractions [num, den].                                             *)
(***************************************************************************)
EXTENDS Integers, Sequences, FiniteSets, TLC

VARIABLES
    \* MoeFlavorTrainingPortal (QuizViewer.tsx:460-473)
    showPortal, activeTab, phases, loading, error,
    completedLessons, completedQuizzes, currentLesson, currentQuiz,
    \* whether a render of the portal tree has thrown (React then unmounts it)
    renderError,
    \* the argument of QuizViewer's latest onComplete call ("none" before any)
    reported,
    \* LessonViewer (QuizViewer.tsx:295-297)
    lessonLoading, lessonError,
    \* QuizViewer (QuizViewer.tsx:25-32)
    questions, quizLoading, quizError, currentQuestionIndex, answers,
    showResults, score,
    \* PixelParkLanding (PixelParkLanding.tsx:13-18)
    characterPos, direction, isWalking, showPrompt, keysPressed,
    animationFrameRef,
    \* the landing scene's environment: the browser's frame queue, the
    \* closure the registered listeners and frame callback were created
    \* in, and the keyboard
    rafPending, effect, posFresh, mounted, enterDown, enterCalls, ticks,
    \* what the latest run of moveCharacter did ("none" before any)
    lastTick,
    \* the keyboard as the browser saw it: the movement keys (lowered e.key)
    \* whose latest event is a keydown, and whether a movement key went down
    \* since the latest frame ("pressed") or the latest frame ran with every
    \* key pressed since the frame before it released again ("ticked")
    keyLog

portalVars == <<showPortal, activeTab, phases, loading, error,
                completedLessons, completedQuizzes, currentLesson, currentQuiz,
                renderError, reported>>
lessonVars == <<lessonLoading, lessonError>>
quizVars   == <<questions, quizLoading, quizError, currentQuestionIndex,
                answers, showResults, score>>
parkVars   == <<characterPos, direction, isWalking, showPrompt, keysPressed,
                animationFrameRef, rafPending, effect, posFresh, mounted,
                enterDown, enterCalls, ticks, lastTick, keyLog>>
vars == <<portalVars, lessonVars, quizVars, parkVars>>

---------------------------------------------------------------------------
(* Bounds of the model *)

MaxLessons == 3      \* lessons in a module of the curricula explored
MaxQuestions == 4    \* questions in a quiz response
MaxTicks == 3        \* animation frames run in the landing scene
MaxHeld == 2         \* keys recorded as held at once

---------------------------------------------------------------------------
(* The curriculum tree (QuizViewer.tsx:420-451).  Ids are opaque; null is *)
(* the empty tuple.                                                        *)

NullId == <<>>
NoQuiz == [id |-> NullId, passingScore |-> 0]

Lesson(m, i) == [id |-> <<"L", m, i>>]
Quiz(m, ps) == [id |-> <<"Q", m>>, passingScore |-> ps]
Module(m, k, q) ==
    [id |-> <<"M", m>>, lessons |-> [i \in 1..k |-> Lesson(m, i)], quiz |-> q]
Phase(ms) == [modules |-> ms]

\* the per-quiz passingScore values the explored curricula carry
PassingScores == {60, 90}
QuizChoices(m) == {NoQuiz} \cup {Quiz(m, ps) : ps \in PassingScores}

\* The structure responses explored: no phase, a phase without modules,
\* every single module of up to MaxLessons lessons with or without a quiz,
\* two modules in one phase (the second without lessons), and two phases.
Trees ==
    {<< >>, <<Phase(<< >>)>>}
    \cup {<<Phase(<<Module(1, k, q)>>)>> : k \in 0..MaxLessons, q \in QuizChoices(1)}
    \cup {<<Phase(<<Module(1, k, Quiz(1, 90)), Module(2, 0, Quiz(2, 60))>>)>> :
            k \in 1..MaxLessons}
    \cup {<<Phase(<<Module(1, k, NoQuiz)>>), Phase(<<Module(2, 1, Quiz(2, 90))>>)>> :
            k \in 1..MaxLessons}

RECURSIVE FlattenModules(_)
FlattenModules(ps) ==
    IF ps = << >> THEN << >> ELSE Head(ps).modules \o FlattenModules(Tail(ps))

ModulesOf(ps) == {FlattenModules(ps)[i] : i \in 1..Len(FlattenModules(ps))}
LessonIdsOf(ps) == UNION {{m.lessons[i].id : i \in 1..Len(m.lessons)} : m \in ModulesOf(ps)}
QuizIdsOf(ps) == {m.quiz.id : m \in {x \in ModulesOf(ps) : x.quiz # NoQuiz}}

\* an id that belongs to no module of any explored tree
ForeignLesson == <<"L", 0, 0>>
ForeignQuiz == <<"Q", 0>>

\* the places of the tree: <<p, m>> is module m of phase p
ModuleSlots ==
    UNION {{<<p, m>> : m \in 1..Len(phases[p].modules)} : p \in 1..Len(phases)}
ModuleAt(s) == phases[s[1]].modules[s[2]]
LessonSlots ==
    UNION {{<<s, i>> : i \in 1..Len(ModuleAt(s).lessons)} : s \in ModuleSlots}
QuizSlots == {s \in ModuleSlots : ModuleAt(s).quiz # NoQuiz}

---------------------------------------------------------------------------
(* Progression functions of MoeFlavorTrainingPortal *)

\* Array.prototype.findIndex(l => l.id === id): 0-based, -1 when absent
RECURSIVE findIndexFrom(_, _, _)
findIndexFrom(lessons, id, i) ==
    IF i > Len(lessons) THEN -1
    ELSE IF lessons[i].id = id THEN i - 1
    ELSE findIndexFrom(lessons, id, i + 1)

findIndex(lessons, id) == findIndexFrom(lessons, id, 1)

\* Array.prototype.every(l => completed.has(l.id)), left to right
RECURSIVE everyCompleted(_, _)
everyCompleted(lessons, completed) ==
    IF lessons = << >> THEN TRUE
    ELSE IF Head(lessons).id \notin completed THEN FALSE
    ELSE everyCompleted(Tail(lessons), completed)

\* isLessonUnlocked content with any earlier lesson of the module
isLessonUnlockedAnyEarlier(completed, lesson, module) ==
    LET lessonIndex == findIndex(module.lessons, lesson.id)
    IN  IF lessonIndex = 0 THEN TRUE
        ELSE \E j \in 1..lessonIndex : module.lessons[j].id \in completed

\* isLessonUnlocked asking for every earlier lesson of the module
isLessonUnlockedAllEarlier(completed, lesson, module) ==
    LET lessonIndex == findIndex(module.lessons, lesson.id)
    IN  \A j \in 1..lessonIndex : module.lessons[j].id \in completed

\* isLessonUnlocked looking at the lesson's own entry instead of its predecessor's
isLessonUnlockedOwnEntry(completed, lesson, module) ==
    LET lessonIndex == findIndex(module.lessons, lesson.id)
    IN  IF lessonIndex = 0 THEN TRUE
        ELSE module.lessons[lessonIndex + 1].id \in completed

\* isQuizUnlocked with Array.prototype.some in place of every
isQuizUnlockedSome(completed, module) ==
    \E i \in 1..Len(module.lessons) : module.lessons[i].id \in completed

\* isLessonUnlocked against a given completed-lessons set; lessons[j] of the
\* code is module.lessons[j + 1] here
isLessonUnlockedIn(completed, lesson, module) ==
    LET lessonIndex == findIndex(module.lessons, lesson.id)
    IN  IF lessonIndex = 0 THEN TRUE
        ELSE LET previousLesson == module.lessons[lessonIndex]
             IN  previousLesson.id \in completed

isLessonUnlocked(lesson, module) ==
    isLessonUnlockedIn(completedLessons, lesson, module)

isQuizUnlockedIn(completed, module) == everyCompleted(module.lessons, completed)

isQuizUnlocked(module) == isQuizUnlockedIn(completedLessons, module)

isModuleComplete(module) ==
    LET allLessonsComplete == everyCompleted(module.lessons, completedLessons)
        quizComplete == module.quiz = NoQuiz \/ module.quiz.id \in completedQuizzes
    IN  allLessonsComplete /\ quizComplete

\* the two counters of getTotalProgress after the forEach loops over the
\* modules ms (phases flattened in order), starting from acc
RECURSIVE countLessons(_, _, _)
countLessons(lessons, completed, n) ==
    IF lessons = << >> THEN n
    ELSE countLessons(Tail(lessons), completed,
                      IF Head(lessons).id \in completed THEN n + 1 ELSE n)

RECURSIVE progressLoop(_, _, _, _)
progressLoop(ms, cl, cq, acc) ==
    IF ms = << >> THEN acc
    ELSE LET module == Head(ms)
             total1 == acc.totalItems + Len(module.lessons)
             total2 == IF module.quiz # NoQuiz THEN total1 + 1 ELSE total1
             done1 == countLessons(module.lessons, cl, acc.completedItems)
             done2 == IF module.quiz # NoQuiz /\ module.quiz.id \in cq
                      THEN done1 + 1 ELSE done1
         IN  progressLoop(Tail(ms), cl, cq,
                          [totalItems |-> total2, completedItems |-> done2])

\* getTotalProgress taking the sizes of the two completion sets as the count
getTotalProgressSetSizes(ps, cl, cq) ==
    LET c == progressLoop(FlattenModules(ps), cl, cq,
                          [totalItems |-> 0, completedItems |-> 0])
    IN  IF c.totalItems > 0
        THEN [num |-> (Cardinality(cl) + Cardinality(cq)) * 100, den |-> c.totalItems]
        ELSE [num |-> 0, den |-> 1]

\* getTotalProgress: (completedItems / totalItems) * 100 as a fraction
getTotalProgressIn(ps, cl, cq) ==
    LET c == progressLoop(FlattenModules(ps), cl, cq,
                          [totalItems |-> 0, completedItems |-> 0])
    IN  IF c.totalItems > 0
        THEN [num |-> c.completedItems * 100, den |-> c.totalItems]
        ELSE [num |-> 0, den |-> 1]

getTotalProgress == getTotalProgressIn(phases, completedLessons, completedQuizzes)

\* an updater that takes the id out when the set already has it
toggledLesson(prev, lessonId) ==
    IF lessonId \in prev THEN prev \ {lessonId} ELSE prev \cup {lessonId}

\* the updater prev => new Set([...prev, lessonId])
withLesson(prev, lessonId) == prev \cup {lessonId}

\* handleLessonComplete building new Set([lessonId]) without ...prev
handleLessonCompleteReplacing(lessonId) ==
    /\ completedLessons' = {lessonId}
    /\ currentLesson' = NullId

\* handleLessonComplete(lessonId)
handleLessonComplete(lessonId) ==
    /\ completedLessons' = withLesson(completedLessons, lessonId)
    /\ currentLesson' = NullId

\* handleQuizComplete without the test of passed
handleQuizCompleteAlways(quizId, passed) ==
    /\ completedQuizzes' = completedQuizzes \cup {quizId}
    /\ currentQuiz' = NullId

\* handleQuizComplete building new Set([quizId]) without ...prev
handleQuizCompleteReplacing(quizId, passed) ==
    /\ completedQuizzes' = IF passed THEN {quizId} ELSE completedQuizzes
    /\ currentQuiz' = NullId

\* handleQuizComplete(quizId, passed)
handleQuizComplete(quizId, passed) ==
    /\ completedQuizzes' = IF passed THEN completedQuizzes \cup {quizId}
                           ELSE completedQuizzes
    /\ currentQuiz' = NullId

---------------------------------------------------------------------------
(* SpecProgress: the progression functions over every completion set the   *)
(* two handlers can build when called with any lesson or quiz id           *)

NoError == "null"

PortalInit ==
    /\ showPortal = TRUE
    /\ activeTab = "home"
    /\ phases = << >>
    /\ loading = TRUE
    /\ error = NoError
    /\ completedLessons = {}
    /\ completedQuizzes = {}
    /\ currentLesson = NullId
    /\ currentQuiz = NullId
    /\ renderError = FALSE
    /\ reported = "none"

\* LessonViewer's useState initial values; also held while no viewer is mounted
LessonViewerInit ==
    /\ lessonLoading = TRUE
    /\ lessonError = NoError

EmptyAnswers == << >>

\* QuizViewer's useState initial values
FreshQuizViewer(qs, ld, er, idx, ans, res, sc) ==
    /\ qs = << >>
    /\ ld = TRUE
    /\ er = NoError
    /\ idx = 0
    /\ ans = EmptyAnswers
    /\ res = FALSE
    /\ sc = [num |-> 0, den |-> 1]

\* no QuizViewer is mounted yet: the variables hold the initial values
QuizViewerInit ==
    FreshQuizViewer(questions, quizLoading, quizError, currentQuestionIndex,
                    answers, showResults, score)

\* a QuizViewer mounts, or the mounted one unmounts and its state is gone
QuizViewerReset ==
    FreshQuizViewer(questions', quizLoading', quizError', currentQuestionIndex',
                    answers', showResults', score')

\* the state and the refs of a landing scene that has unmounted are gone
Unmounted(pos, dir, walking, prompt, keys, eff, fresh) ==
    /\ pos = [x |-> 0, y |-> 0]
    /\ dir = "down"
    /\ walking = FALSE
    /\ prompt = FALSE
    /\ keys = {}
    /\ eff = [pos |-> [x |-> 0, y |-> 0], dir |-> "down", prompt |-> FALSE]
    /\ fresh = FALSE

\* no movement key is down and none went down since the latest frame
NoKeys == [down |-> {}, tap |-> "none"]

\* the landing scene has handed over to the portal
ParkGone ==
    /\ Unmounted(characterPos, direction, isWalking, showPrompt, keysPressed,
                 effect, posFresh)
    /\ animationFrameRef = 0
    /\ rafPending = {}
    /\ mounted = FALSE
    /\ enterDown = FALSE
    /\ enterCalls = 0
    /\ ticks = 0
    /\ lastTick = "none"
    /\ keyLog = NoKeys

ProgressInit ==
    /\ PortalInit
    /\ LessonViewerInit
    /\ QuizViewerInit
    /\ ParkGone

\* setPhases(structureData.phases || []) ... setLoading(false)
StructureLoaded ==
    /\ showPortal /\ loading
    /\ \E t \in Trees : phases' = t
    /\ loading' = FALSE
    /\ UNCHANGED <<showPortal, activeTab, error, completedLessons,
                   completedQuizzes, currentLesson, currentQuiz, renderError, reported>>
    /\ UNCHANGED <<lessonVars, quizVars, parkVars>>

\* handleLessonComplete called with any lesson id
RecordLesson ==
    /\ ~loading
    /\ \E id \in LessonIdsOf(phases) \cup {ForeignLesson} : handleLessonComplete(id)
    /\ UNCHANGED <<showPortal, activeTab, phases, loading, error,
                   completedQuizzes, currentQuiz, renderError, reported>>
    /\ UNCHANGED <<lessonVars, quizVars, parkVars>>

\* handleQuizComplete called with any quiz id and outcome
RecordQuiz ==
    /\ ~loading
    /\ \E id \in QuizIdsOf(phases) \cup {ForeignQuiz}, passed \in BOOLEAN :
           handleQuizComplete(id, passed)
    /\ UNCHANGED <<showPortal, activeTab, phases, loading, error,
                   completedLessons, currentLesson, renderError, reported>>
    /\ UNCHANGED <<lessonVars, quizVars, parkVars>>

ProgressNext == StructureLoaded \/ RecordLesson \/ RecordQuiz

SpecProgress == ProgressInit /\ [][ProgressNext]_vars

---------------------------------------------------------------------------
(* SpecPortal: MoeFlavorTrainingPortal with its viewers, from the moment   *)
(* the landing scene has handed over (showPortal = true, fetch in flight)  *)

FetchFailed == "Failed to load"

\* QuizQuestion (QuizViewer.tsx:4-15): the option keys and the fields read
OptionKeys == {"A", "B", "C", "D"}
\* the option buttons clicked in the runs explored: every question has its
\* correct key and a wrong key among them
KeysClicked == {"A", "B"}
Question(i) == [id |-> <<"q", i>>, correctAnswer |-> IF i % 2 = 1 THEN "A" ELSE "B"]

\* the quiz responses explored: 0..MaxQuestions questions
QuestionLists == {[i \in 1..n |-> Question(i)] : n \in 0..MaxQuestions}

\* the main portal interface is what is rendered (QuizViewer.tsx:566-626)
MainInterface ==
    /\ showPortal /\ ~renderError
    /\ currentLesson = NullId /\ currentQuiz = NullId
    /\ ~loading /\ error = NoError

\* fetchData: the structure request fails, or the team request fails after
\* setPhases has run
FetchDataFailed ==
    /\ showPortal /\ loading
    /\ \E t \in {<< >>} \cup Trees : phases' = t
    /\ error' = FetchFailed
    /\ loading' = FALSE
    /\ UNCHANGED <<showPortal, activeTab, completedLessons, completedQuizzes,
                   currentLesson, currentQuiz, renderError, reported>>
    /\ UNCHANGED <<lessonVars, quizVars, parkVars>>

\* onClick={() => setActiveTab(tab)}
SetActiveTab ==
    /\ MainInterface
    /\ \E tab \in {"home", "training", "team"} : activeTab' = tab
    /\ UNCHANGED <<showPortal, phases, loading, error, completedLessons,
                   completedQuizzes, currentLesson, currentQuiz, renderError, reported>>
    /\ UNCHANGED <<lessonVars, quizVars, parkVars>>

\* a click on a lesson row of the training tab; LessonViewer mounts
OpenLesson ==
    /\ MainInterface /\ activeTab = "training"
    /\ \E s \in ModuleSlots : \E i \in 1..Len(ModuleAt(s).lessons) :
        LET module == ModuleAt(s)
            lesson == module.lessons[i]
            isCompleted == lesson.id \in completedLessons
            isUnlocked == isLessonUnlocked(lesson, module)
        IN  /\ isUnlocked /\ ~isCompleted
            /\ currentLesson' = lesson.id
    /\ lessonLoading' = TRUE
    /\ lessonError' = NoError
    /\ UNCHANGED <<showPortal, activeTab, phases, loading, error,
                   completedLessons, completedQuizzes, currentQuiz, renderError, reported>>
    /\ UNCHANGED <<quizVars, parkVars>>

LessonMounted == showPortal /\ ~renderError /\ currentLesson # NullId

\* LessonViewer renders the error with its Go Back button
LessonFailedView == LessonMounted /\ ~lessonLoading /\ lessonError # NoError

\* fetchLesson resolves: content, or the catch branch
LessonFetched ==
    /\ LessonMounted /\ lessonLoading
    /\ lessonLoading' = FALSE
    /\ \E e \in {NoError, FetchFailed} : lessonError' = e
    /\ UNCHANGED <<portalVars, quizVars, parkVars>>

\* onBack of LessonViewer (the error view and the header)
LessonBack ==
    /\ LessonMounted /\ ~lessonLoading
    /\ currentLesson' = NullId
    /\ lessonLoading' = TRUE
    /\ lessonError' = NoError
    /\ UNCHANGED <<showPortal, activeTab, phases, loading, error,
                   completedLessons, completedQuizzes, currentQuiz, renderError, reported>>
    /\ UNCHANGED <<quizVars, parkVars>>

\* Mark as Complete: onComplete={() => handleLessonComplete(currentLesson)}
LessonComplete ==
    /\ LessonMounted /\ ~lessonLoading /\ lessonError = NoError
    /\ handleLessonComplete(currentLesson)
    /\ lessonLoading' = TRUE
    /\ lessonError' = NoError
    /\ UNCHANGED <<showPortal, activeTab, phases, loading, error,
                   completedQuizzes, currentQuiz, renderError, reported>>
    /\ UNCHANGED <<quizVars, parkVars>>

\* a click on the quiz row of the training tab; QuizViewer mounts
OpenQuiz ==
    /\ MainInterface /\ activeTab = "training"
    /\ \E s \in QuizSlots :
        LET module == ModuleAt(s)
        IN  /\ isQuizUnlocked(module)
            /\ module.quiz.id \notin completedQuizzes
            /\ currentQuiz' = module.quiz.id
    /\ QuizViewerReset
    /\ UNCHANGED <<showPortal, activeTab, phases, loading, error,
                   completedLessons, completedQuizzes, currentLesson, renderError, reported>>
    /\ UNCHANGED <<lessonVars, parkVars>>

QuizMounted == showPortal /\ ~renderError /\ currentQuiz # NullId

\* fetchQuiz resolves with questions: setQuestions(data.questions || []).
\* With no question the quiz view reads currentQuestion.question of
\* undefined and the render throws.
QuizFetched ==
    /\ QuizMounted /\ quizLoading
    /\ \E qs \in QuestionLists :
        /\ questions' = qs
        /\ renderError' = (qs = << >>)
    /\ quizLoading' = FALSE
    /\ UNCHANGED <<showPortal, activeTab, phases, loading, error,
                   completedLessons, completedQuizzes, currentLesson, currentQuiz,
                   reported>>
    /\ UNCHANGED <<quizError, currentQuestionIndex, answers, showResults, score>>
    /\ UNCHANGED <<lessonVars, parkVars>>

\* fetchQuiz's catch branch
QuizFetchFailed ==
    /\ QuizMounted /\ quizLoading
    /\ quizError' = FetchFailed
    /\ quizLoading' = FALSE
    /\ UNCHANGED <<questions, currentQuestionIndex, answers, showResults, score>>
    /\ UNCHANGED <<portalVars, lessonVars, parkVars>>

\* QuizViewer renders the error with its Go Back button
QuizFailedView == QuizMounted /\ ~quizLoading /\ quizError # NoError

\* the question view is what QuizViewer renders
QuizView == QuizMounted /\ ~quizLoading /\ quizError = NoError /\ ~showResults
ResultsView == QuizMounted /\ ~quizLoading /\ quizError = NoError /\ showResults

\* an error view without the Go Back button: onBack only in the header
QuizBackShownInHeaderOnly == QuizView

\* a button with onClick={onBack} is rendered: the error view and the
\* header of the question view
QuizBackShown == QuizFailedView \/ QuizView

\* questions[currentQuestionIndex]
currentQuestion == questions[currentQuestionIndex + 1]

\* answers[id] is set (truthy)
Answered(id) == id \in DOMAIN answers

\* allAnswered with Array.prototype.some in place of every
someAnswered == \E i \in 1..Len(questions) : Answered(questions[i].id)

\* questions.every(q => answers[q.id])
allAnswered == \A i \in 1..Len(questions) : Answered(questions[i].id)

\* handleAnswer(currentQuestion.id, key) from an option button
AnswerQuestion ==
    /\ QuizView
    /\ \E key \in KeysClicked :
        answers' = [id \in DOMAIN answers \cup {currentQuestion.id} |->
                        IF id = currentQuestion.id THEN key ELSE answers[id]]
    /\ UNCHANGED <<questions, quizLoading, quizError, currentQuestionIndex,
                   showResults, score>>
    /\ UNCHANGED <<portalVars, lessonVars, parkVars>>

Max(a, b) == IF a >= b THEN a ELSE b
Min(a, b) == IF a <= b THEN a ELSE b

\* Previous: disabled at index 0
PreviousQuestion ==
    /\ QuizView /\ currentQuestionIndex # 0
    /\ currentQuestionIndex' = Max(0, currentQuestionIndex - 1)
    /\ UNCHANGED <<questions, quizLoading, quizError, answers, showResults, score>>
    /\ UNCHANGED <<portalVars, lessonVars, parkVars>>

\* Next: rendered unless the index is the last
NextQuestion ==
    /\ QuizView /\ currentQuestionIndex # Len(questions) - 1
    /\ currentQuestionIndex' = Min(Len(questions) - 1, currentQuestionIndex + 1)
    /\ UNCHANGED <<questions, quizLoading, quizError, answers, showResults, score>>
    /\ UNCHANGED <<portalVars, lessonVars, parkVars>>

\* a Submit Quiz button rendered on every question
SubmitEnabledOnEveryQuestion == QuizView /\ allAnswered

\* the Submit Quiz button is rendered and not disabled
SubmitEnabled ==
    QuizView /\ currentQuestionIndex = Len(questions) - 1 /\ allAnswered

\* the number of questions i <= n with answers[q.id] === q.correctAnswer
RECURSIVE countCorrect(_, _, _)
countCorrect(qs, ans, correct) ==
    IF qs = << >> THEN correct
    ELSE countCorrect(Tail(qs), ans,
            IF Head(qs).id \in DOMAIN ans /\ ans[Head(qs).id] = Head(qs).correctAnswer
            THEN correct + 1 ELSE correct)

\* handleSubmit: percentage = (correct / questions.length) * 100
percentage(qs, ans) == [num |-> countCorrect(qs, ans, 0) * 100, den |-> Len(qs)]

SubmitQuiz ==
    /\ SubmitEnabled
    /\ score' = percentage(questions, answers)
    /\ showResults' = TRUE
    /\ UNCHANGED <<questions, quizLoading, quizError, currentQuestionIndex, answers>>
    /\ UNCHANGED <<portalVars, lessonVars, parkVars>>

\* score >= passingScore of the quiz being taken, in place of 70
passedByPassingScore(sc) ==
    LET quiz == CHOOSE q \in {ModuleAt(s).quiz : s \in QuizSlots} : q.id = currentQuiz
    IN  sc.num >= quiz.passingScore * sc.den

\* const passed = score >= 70
passed(sc) == sc.num >= 70 * sc.den

\* Try Again without setAnswers({})
RetryQuizKeepingAnswers ==
    /\ ResultsView /\ ~passed(score)
    /\ showResults' = FALSE
    /\ currentQuestionIndex' = 0
    /\ UNCHANGED <<questions, quizLoading, quizError, answers, score>>
    /\ UNCHANGED <<portalVars, lessonVars, parkVars>>

\* Try Again, rendered when !passed
RetryQuiz ==
    /\ ResultsView /\ ~passed(score)
    /\ showResults' = FALSE
    /\ currentQuestionIndex' = 0
    /\ answers' = EmptyAnswers
    /\ UNCHANGED <<questions, quizLoading, quizError, score>>
    /\ UNCHANGED <<portalVars, lessonVars, parkVars>>

\* handleFinish: onComplete(passed), that is handleQuizComplete(currentQuiz,
\* passed); QuizViewer unmounts
FinishQuiz ==
    /\ ResultsView
    /\ handleQuizComplete(currentQuiz, passed(score))
    /\ reported' = IF passed(score) THEN "passed" ELSE "failed"
    /\ QuizViewerReset
    /\ UNCHANGED <<showPortal, activeTab, phases, loading, error,
                   completedLessons, currentLesson, renderError>>
    /\ UNCHANGED <<lessonVars, parkVars>>

\* onBack of QuizViewer (the error view and the header of the question view)
QuizBack ==
    /\ QuizBackShown
    /\ currentQuiz' = NullId
    /\ QuizViewerReset
    /\ UNCHANGED <<showPortal, activeTab, phases, loading, error,
                   completedLessons, completedQuizzes, currentLesson, renderError, reported>>
    /\ UNCHANGED <<lessonVars, parkVars>>

PortalNext ==
    \/ StructureLoaded \/ FetchDataFailed \/ SetActiveTab
    \/ OpenLesson \/ LessonFetched \/ LessonBack \/ LessonComplete
    \/ OpenQuiz \/ QuizFetched \/ QuizFetchFailed
    \/ AnswerQuestion \/ PreviousQuestion \/ NextQuestion \/ SubmitQuiz
    \/ RetryQuiz \/ FinishQuiz \/ QuizBack

SpecPortal == ProgressInit /\ [][PortalNext]_vars

---------------------------------------------------------------------------
(* The landing scene, PixelParkLanding.tsx *)

\* obstacles (PixelParkLanding.tsx:21-32)
obstacles ==
    { [x |-> 60 - 30,  y |-> 142, width |-> 60,  height |-> 100],   \* tree1
      [x |-> 546 - 30, y |-> 142, width |-> 60,  height |-> 100],   \* tree2
      [x |-> 170,      y |-> 212, width |-> 54,  height |-> 40],    \* bench1
      [x |-> 486,      y |-> 212, width |-> 54,  height |-> 40],    \* bench2
      [x |-> 230,      y |-> 213, width |-> 90,  height |-> 40],    \* bush1
      [x |-> 310,      y |-> 213, width |-> 85,  height |-> 40],    \* bush2
      [x |-> 546,      y |-> 213, width |-> 103, height |-> 40] }   \* bush3

portalZone == [x |-> 280, y |-> 180, width |-> 66, height |-> 80]

speed == 2

\* checkCollision testing the point (newX, newY), not the actor's box
checkCollisionOfPoint(newX, newY) ==
    IF newX < 20 \/ newX > 606 \/ newY < 100 \/ newY > 240 THEN TRUE
    ELSE \E obstacle \in obstacles :
            /\ newX < obstacle.x + obstacle.width
            /\ newX > obstacle.x
            /\ newY < obstacle.y + obstacle.height
            /\ newY > obstacle.y

\* checkCollision without the test of the scene bounds
checkCollisionObstaclesOnly(newX, newY) ==
    LET characterBox == [x |-> newX - 8, y |-> newY - 16, width |-> 16, height |-> 24]
    IN  \E obstacle \in obstacles :
            /\ characterBox.x < obstacle.x + obstacle.width
            /\ characterBox.x + characterBox.width > obstacle.x
            /\ characterBox.y < obstacle.y + obstacle.height
            /\ characterBox.y + characterBox.height > obstacle.y

\* checkCollision with <= and >= in the overlap test: touching counts
checkCollisionTouching(newX, newY) ==
    LET characterBox == [x |-> newX - 8, y |-> newY - 16, width |-> 16, height |-> 24]
    IN  IF newX < 20 \/ newX > 606 \/ newY < 100 \/ newY > 240 THEN TRUE
        ELSE \E obstacle \in obstacles :
                /\ characterBox.x <= obstacle.x + obstacle.width
                /\ characterBox.x + characterBox.width >= obstacle.x
                /\ characterBox.y <= obstacle.y + obstacle.height
                /\ characterBox.y + characterBox.height >= obstacle.y

\* checkCollision(newX, newY)
checkCollision(newX, newY) ==
    LET characterBox == [x |-> newX - 8, y |-> newY - 16, width |-> 16, height |-> 24]
    IN  IF newX < 20 \/ newX > 606 \/ newY < 100 \/ newY > 240 THEN TRUE
        ELSE \E obstacle \in obstacles :
                /\ characterBox.x < obstacle.x + obstacle.width
                /\ characterBox.x + characterBox.width > obstacle.x
                /\ characterBox.y < obstacle.y + obstacle.height
                /\ characterBox.y + characterBox.height > obstacle.y

\* checkPortalZone(x, y)
checkPortalZone(x, y) ==
    /\ x > portalZone.x
    /\ x < portalZone.x + portalZone.width
    /\ y > portalZone.y
    /\ y < portalZone.y + portalZone.height

\* the e.key values of the key events explored: both keys of "up" (and W
\* with shift), one key of each other direction, Enter and an unbound key
KeyEvents == {"ArrowUp", "w", "W", "s", "ArrowLeft", "d", "Enter", "x"}

\* e.key.toLowerCase()
toLowerCase(k) ==
    CASE k = "ArrowUp" -> "arrowup"
      [] k = "ArrowDown" -> "arrowdown"
      [] k = "ArrowLeft" -> "arrowleft"
      [] k = "ArrowRight" -> "arrowright"
      [] k = "W" -> "w"
      [] k = "Enter" -> "enter"
      [] OTHER -> k

\* the lowered key kept as it is, "arrowup" for ArrowUp
keyNameLowered(key) == key

\* the name under which handleKeyDown and handleKeyUp keep a lowered key
keyName(key) ==
    IF key = "arrowup" THEN "ArrowUp"
    ELSE IF key = "arrowdown" THEN "ArrowDown"
    ELSE IF key = "arrowleft" THEN "ArrowLeft"
    ELSE IF key = "arrowright" THEN "ArrowRight"
    ELSE key

movementKeys == {"arrowup", "arrowdown", "arrowleft", "arrowright", "w", "a", "s", "d"}

\* moveCharacter with the first held direction, not the last, as newDirection
moveCandidateFirstHeld(pos, dir, keys) ==
    LET up    == "ArrowUp" \in keys \/ "w" \in keys
        down  == "ArrowDown" \in keys \/ "s" \in keys
        left  == "ArrowLeft" \in keys \/ "a" \in keys
        right == "ArrowRight" \in keys \/ "d" \in keys
        y1 == IF up THEN pos.y - speed ELSE pos.y
        y2 == IF down THEN y1 + speed ELSE y1
        x1 == IF left THEN pos.x - speed ELSE pos.x
        x2 == IF right THEN x1 + speed ELSE x1
    IN  [newX |-> x2, newY |-> y2,
         moved |-> up \/ down \/ left \/ right,
         newDirection |-> IF up THEN "up" ELSE IF down THEN "down"
                          ELSE IF left THEN "left" ELSE IF right THEN "right" ELSE dir]

\* the locals of moveCharacter after its four key tests, for a callback
\* whose closure holds position pos and direction dir
moveCandidate(pos, dir, keys) ==
    LET up    == "ArrowUp" \in keys \/ "w" \in keys
        down  == "ArrowDown" \in keys \/ "s" \in keys
        left  == "ArrowLeft" \in keys \/ "a" \in keys
        right == "ArrowRight" \in keys \/ "d" \in keys
        y1 == IF up THEN pos.y - speed ELSE pos.y
        y2 == IF down THEN y1 + speed ELSE y1
        x1 == IF left THEN pos.x - speed ELSE pos.x
        x2 == IF right THEN x1 + speed ELSE x1
    IN  [newX |-> x2, newY |-> y2,
         moved |-> up \/ down \/ left \/ right,
         newDirection |-> IF right THEN "right" ELSE IF left THEN "left"
                          ELSE IF down THEN "down" ELSE IF up THEN "up" ELSE dir]

\* requestAnimationFrame hands out an id no pending request and no stored
\* id carries (the ids are compared for equality only)
FreshId(pending, ref) ==
    CHOOSE n \in 1..(Cardinality(pending) + 2) :
        /\ n # ref
        /\ \A r \in pending : r.id # n /\ \A j \in 1..(n - 1) : j = ref \/ \E q \in pending : q.id = j

\* moveCharacter requesting the next frame without storing its id
frameIdNotStored(ref, id) == ref

\* animationFrameRef.current = requestAnimationFrame(moveCharacter): the
\* ref holds the id of the request just made
frameIdStored(ref, id) == id

\* cancelAnimationFrame(id)
cancelAnimationFrame(pending, id) == {r \in pending : r.id # id}

\* the state after the first render and the first run of the effect: the
\* listeners are registered and one frame is requested
ParkInitAt(pos, dir, last) ==
    /\ characterPos = pos
    /\ direction = dir
    /\ isWalking = FALSE
    /\ showPrompt = FALSE
    /\ keysPressed = {}
    /\ animationFrameRef = 1
    /\ rafPending = {[id |-> 1, pos |-> pos, dir |-> dir]}
    /\ effect = [pos |-> pos, dir |-> dir, prompt |-> FALSE]
    /\ posFresh = FALSE
    /\ mounted = TRUE
    /\ enterDown = FALSE
    /\ enterCalls = 0
    /\ ticks = 0
    /\ lastTick = last
    /\ keyLog = NoKeys

LandingInit ==
    /\ showPortal = FALSE
    /\ activeTab = "home"
    /\ phases = << >>
    /\ loading = TRUE
    /\ error = NoError
    /\ completedLessons = {}
    /\ completedQuizzes = {}
    /\ currentLesson = NullId
    /\ currentQuiz = NullId
    /\ renderError = FALSE
    /\ reported = "none"
    /\ LessonViewerInit
    /\ QuizViewerInit

ParkInit == LandingInit /\ ParkInitAt([x |-> 300, y |-> 200], "down", "none")

\* a cleanup that removes the listeners and cancels no frame
cleanupWithoutCancel == rafPending

\* Enter calling onEnterPortal without the test of showPrompt
entersPortalAlways(key, prompt) == key = "enter"

\* key === 'enter' && showPrompt, in the closure of handleKeyDown
entersPortal(key, prompt) == key = "enter" /\ prompt

\* the frames pending after the cleanup of the effect: the listeners go,
\* and the stored frame id, if truthy, is cancelled
cleanupPending ==
    IF animationFrameRef # 0 THEN cancelAnimationFrame(rafPending, animationFrameRef)
    ELSE rafPending

\* a keydown event reaches handleKeyDown.  Enter with showPrompt in the
\* handler's closure calls onEnterPortal, that is setShowPortal(true): the
\* update of a discrete event is committed before the event returns, the
\* landing scene unmounts and its cleanup runs.
KeyDown ==
    /\ mounted
    /\ \E k \in KeyEvents :
        LET key == toLowerCase(k)
            held == IF key \in movementKeys THEN keysPressed \cup {keyName(key)}
                    ELSE keysPressed
        IN  /\ Cardinality(held) <= MaxHeld
            /\ enterDown' = (enterDown \/ k = "Enter")
            /\ IF entersPortal(key, effect.prompt)
               THEN /\ enterCalls' = enterCalls + 1
                    /\ showPortal' = TRUE
                    /\ mounted' = FALSE
                    /\ rafPending' = cleanupPending
                    /\ Unmounted(characterPos', direction', isWalking', showPrompt',
                                 keysPressed', effect', posFresh')
                    /\ keyLog' = NoKeys
               ELSE /\ keysPressed' = held
                    /\ keyLog' = IF key \in movementKeys
                                 THEN [down |-> keyLog.down \cup {key},
                                       tap |-> IF key \in keyLog.down
                                               THEN keyLog.tap ELSE "pressed"]
                                 ELSE keyLog
                    /\ UNCHANGED <<enterCalls, showPortal, mounted, rafPending,
                                   characterPos, direction, isWalking, showPrompt,
                                   effect, posFresh>>
    /\ UNCHANGED <<animationFrameRef, ticks, lastTick>>
    /\ UNCHANGED <<activeTab, phases, loading, error, completedLessons,
                   completedQuizzes, currentLesson, currentQuiz, renderError, reported>>
    /\ UNCHANGED <<lessonVars, quizVars>>

\* a keyup event of a key that is down reaches handleKeyUp (of a movement
\* key the browser saw go down, or of Enter)
KeyUp ==
    /\ mounted
    /\ \E k \in KeyEvents :
        /\ k = "Enter" => enterDown
        /\ k # "Enter" => toLowerCase(k) \in keyLog.down
        /\ keysPressed' = keysPressed \ {keyName(toLowerCase(k))}
        /\ keyLog' = [keyLog EXCEPT !.down = @ \ {toLowerCase(k)}]
        /\ enterDown' = (enterDown /\ k # "Enter")
    /\ UNCHANGED <<characterPos, direction, isWalking, showPrompt,
                   animationFrameRef, rafPending, effect, posFresh, mounted,
                   enterCalls, ticks, lastTick>>
    /\ UNCHANGED <<portalVars, lessonVars, quizVars>>

\* Enter goes down (a press or an auto-repeat) or up after the landing
\* scene has unmounted: no listener is left
KeyAfterUnmount ==
    /\ ~mounted
    /\ enterDown' = ~enterDown
    /\ UNCHANGED <<characterPos, direction, isWalking, showPrompt, keysPressed,
                   animationFrameRef, rafPending, effect, posFresh, mounted,
                   enterCalls, ticks, lastTick, keyLog>>
    /\ UNCHANGED <<portalVars, lessonVars, quizVars>>

\* the browser runs a pending frame callback: moveCharacter of the render
\* that created it (position cb.pos, direction cb.dir), with the keys held
\* now.  The state setters of an unmounted component do nothing.
Tick ==
    /\ ticks < MaxTicks
    /\ \E cb \in rafPending :
        LET c == moveCandidate(cb.pos, cb.dir, keysPressed)
            accepted == c.moved /\ ~checkCollision(c.newX, c.newY)
            id == FreshId(rafPending \ {cb}, animationFrameRef)
        IN  /\ characterPos' = IF mounted /\ accepted
                               THEN [x |-> c.newX, y |-> c.newY] ELSE characterPos
            /\ posFresh' = (posFresh \/ (mounted /\ accepted))
            /\ direction' = IF mounted /\ accepted THEN c.newDirection ELSE direction
            /\ isWalking' = IF mounted THEN accepted ELSE isWalking
            /\ showPrompt' = IF mounted /\ c.moved
                             THEN checkPortalZone(c.newX, c.newY) ELSE showPrompt
            /\ lastTick' = IF accepted THEN "accepted"
                           ELSE IF c.moved THEN "rejected" ELSE "idle"
            /\ animationFrameRef' = frameIdStored(animationFrameRef, id)
            /\ rafPending' = (rafPending \ {cb})
                                \cup {[id |-> id, pos |-> cb.pos, dir |-> cb.dir]}
    /\ ticks' = ticks + 1
    /\ keyLog' = [keyLog EXCEPT !.tap = IF @ = "pressed" /\ keyLog.down = {}
                                        THEN "ticked" ELSE "none"]
    /\ UNCHANGED <<keysPressed, effect, mounted, enterDown, enterCalls>>
    /\ UNCHANGED <<portalVars, lessonVars, quizVars>>

\* a dependency of the effect differs from the one it last ran with
DepsChanged ==
    posFresh \/ direction # effect.dir \/ showPrompt # effect.prompt

\* React commits the re-render a tick scheduled: the effect's cleanup runs,
\* then the effect runs again with the closures of the new render
Commit ==
    /\ mounted /\ DepsChanged
    /\ LET id == FreshId(cleanupPending, animationFrameRef)
       IN  /\ animationFrameRef' = id
           /\ rafPending' = cleanupPending
                               \cup {[id |-> id, pos |-> characterPos, dir |-> direction]}
    /\ effect' = [pos |-> characterPos, dir |-> direction, prompt |-> showPrompt]
    /\ posFresh' = FALSE
    /\ UNCHANGED <<characterPos, direction, isWalking, showPrompt, keysPressed,
                   mounted, enterDown, enterCalls, ticks, lastTick, keyLog>>
    /\ UNCHANGED <<portalVars, lessonVars, quizVars>>

ParkNext == KeyDown \/ KeyUp \/ KeyAfterUnmount \/ Tick \/ Commit

SpecPark == ParkInit /\ [][ParkNext]_vars

\* SpecScene: the same scene entered at places the actor can walk to from
\* (300, 200): the bottom left corner (reached going down the free column
\* x <= 22) and the top right corner (reached along y = 100), each after an
\* idle tick with no key held, and the place of construction itself.
\* SpecWalk reaches both corners at rest.
SceneStarts ==
    { [pos |-> [x |-> 300, y |-> 200], dir |-> "down",  last |-> "none"],
      [pos |-> [x |-> 20,  y |-> 240], dir |-> "down",  last |-> "idle"],
      [pos |-> [x |-> 606, y |-> 100], dir |-> "right", last |-> "idle"] }

SceneInit ==
    /\ LandingInit
    /\ \E st \in SceneStarts : ParkInitAt(st.pos, st.dir, st.last)

SpecScene == SceneInit /\ [][ParkNext]_vars

\* SpecWalk: the landing scene walked step by step with no bound on the
\* number of frames.  For one step the keys of a set of at most MaxHeld
\* directions go down, a frame runs, React commits its updates, the keys
\* go up and a second frame runs idle and is committed: the scene is then
\* at rest, as ParkInitAt describes it.
WalkKeySets ==
    {held \in SUBSET {"w", "s", "ArrowLeft", "d"} :
        held # {} /\ Cardinality(held) <= MaxHeld}

\* the frame id stored after a step: each of the two frames requests the
\* next one, and the effect requests one more when a dependency changed
idAfterStep(ref, depsChanged) ==
    LET afterFrame == FreshId({}, ref)
        afterCommit == IF depsChanged THEN FreshId({}, afterFrame) ELSE afterFrame
    IN  FreshId({}, afterCommit)

WalkStep ==
    /\ mounted /\ ~DepsChanged /\ keysPressed = {}
    /\ \E held \in WalkKeySets :
       \E c \in {moveCandidate(characterPos, direction, held)} :
       \E accepted \in {c.moved /\ ~checkCollision(c.newX, c.newY)} :
       \E pos \in {IF accepted THEN [x |-> c.newX, y |-> c.newY] ELSE characterPos} :
       \E dir \in {IF accepted THEN c.newDirection ELSE direction} :
       \E prompt \in {IF c.moved THEN checkPortalZone(c.newX, c.newY) ELSE showPrompt} :
       \E id \in {idAfterStep(animationFrameRef,
                              accepted \/ dir # direction \/ prompt # showPrompt)} :
            /\ characterPos' = pos
            /\ direction' = dir
            /\ showPrompt' = prompt
            /\ effect' = [pos |-> pos, dir |-> dir, prompt |-> prompt]
            /\ animationFrameRef' = id
            /\ rafPending' = {[id |-> id, pos |-> pos, dir |-> dir]}
    /\ isWalking' = FALSE
    /\ lastTick' = "idle"
    /\ posFresh' = FALSE
    /\ UNCHANGED <<keysPressed, keyLog, mounted, enterDown, enterCalls, ticks>>
    /\ UNCHANGED <<portalVars, lessonVars, quizVars>>

SpecWalk == ParkInit /\ [][WalkStep]_vars

---------------------------------------------------------------------------
(* Claims about the progression functions (SpecProgress) *)

\* C1: for every module of the tree and every place i of its lesson list,
\* isLessonUnlocked of the lesson at i is true exactly when i is the first
\* place or the lesson at i - 1 is in the completed-lessons set.
C1_LessonUnlock ==
    \A s \in ModuleSlots :
        \A i \in 1..Len(ModuleAt(s).lessons) :
            isLessonUnlocked(ModuleAt(s).lessons[i], ModuleAt(s))
                <=> (i = 1 \/ ModuleAt(s).lessons[i - 1].id \in completedLessons)

\* a module [L1, L2, L3] with only L1 completed: L2 is unlocked, L3 is locked
C1_Witness ==
    \E s \in ModuleSlots :
        LET m == ModuleAt(s)
        IN  /\ Len(m.lessons) = 3
            /\ m.lessons[1].id \in completedLessons
            /\ m.lessons[2].id \notin completedLessons
            /\ isLessonUnlocked(m.lessons[2], m)
            /\ ~isLessonUnlocked(m.lessons[3], m)

\* C2: isQuizUnlocked of a module is true exactly when the ids of all its
\* lessons are in the completed-lessons set, so a module without lessons has
\* its quiz unlocked whatever the set holds.
C2_QuizUnlock ==
    \A s \in ModuleSlots :
        LET m == ModuleAt(s)
        IN  /\ isQuizUnlocked(m)
                <=> {m.lessons[i].id : i \in 1..Len(m.lessons)} \subseteq completedLessons
            /\ Len(m.lessons) = 0 => isQuizUnlocked(m)

\* a module without lessons is unlocked with nothing completed, next to a
\* module whose quiz is still locked
C2_Witness ==
    /\ completedLessons = {}
    /\ \E s \in ModuleSlots : Len(ModuleAt(s).lessons) = 0 /\ isQuizUnlocked(ModuleAt(s))
    /\ \E s \in ModuleSlots : Len(ModuleAt(s).lessons) > 0 /\ ~isQuizUnlocked(ModuleAt(s))

C6_Total == Cardinality(LessonSlots) + Cardinality(QuizSlots)
C6_Done ==
    Cardinality({l \in LessonSlots :
                    ModuleAt(l[1]).lessons[l[2]].id \in completedLessons})
    + Cardinality({s \in QuizSlots : ModuleAt(s).quiz.id \in completedQuizzes})

\* C6: getTotalProgress is the fraction 100 * done / total over the lesson
\* and quiz places of the tree, and 0 when the tree has no such place; ids
\* in the completion sets that are at no place of the tree add nothing.
C6_TotalProgress ==
    /\ getTotalProgress.den > 0
    /\ C6_Total = 0 => getTotalProgress.num = 0
    /\ C6_Total > 0 =>
           getTotalProgress.num * C6_Total = 100 * C6_Done * getTotalProgress.den

\* a tree partly completed while the sets also hold ids of no module
C6_Witness ==
    /\ ForeignLesson \in completedLessons
    /\ ForeignQuiz \in completedQuizzes
    /\ 0 < C6_Done /\ C6_Done < C6_Total
    /\ Len(phases) = 2

---------------------------------------------------------------------------
(* Claims about the quiz session and its outcome (SpecPortal) *)

\* the questions of the mounted quiz whose recorded answer is the correct one
CorrectlyAnswered ==
    {i \in 1..Len(questions) :
        /\ questions[i].id \in DOMAIN answers
        /\ answers[questions[i].id] = questions[i].correctAnswer}

\* the step on which the results view closes through its finish button
FinishStep == showResults /\ currentQuiz # NullId /\ currentQuiz' = NullId

\* C3: every step that takes the quiz session from the question view to the
\* results view starts in a state where each question of the quiz has a
\* recorded answer.
C3_SubmitNeedsAllAnswers ==
    [][(~showResults /\ showResults') =>
          \A i \in 1..Len(questions) : questions[i].id \in DOMAIN answers]_vars

\* a 3-question quiz has been submitted
C3_Witness ==
    /\ showResults /\ Len(questions) = 3
    /\ \A i \in 1..3 : questions[i].id \in DOMAIN answers

\* C4: in the results view of a quiz with n questions, c of them answered
\* correctly, the score is 100 * c / n; the finish step leaves the quiz id in
\* the completed-quizzes set exactly when 100 * c / n >= 70, whatever the
\* quiz's passingScore.
C4_ScoreAndThreshold ==
    /\ [](ResultsView =>
            score.num * Len(questions)
                = 100 * Cardinality(CorrectlyAnswered) * score.den)
    /\ [][FinishStep =>
            (currentQuiz \in completedQuizzes'
                <=> 100 * Cardinality(CorrectlyAnswered) >= 70 * Len(questions))]_vars

\* 3 of 4 correct is a pass for a quiz whose passingScore is 90
C4_Witness ==
    /\ ResultsView /\ Len(questions) = 4 /\ Cardinality(CorrectlyAnswered) = 3
    /\ passed(score)
    /\ \E s \in QuizSlots :
          ModuleAt(s).quiz.id = currentQuiz /\ ModuleAt(s).quiz.passingScore = 90

\* C5: a finish step of an attempt whose score is below 70 changes neither
\* completion set, and the completed-quizzes set changes only on a finish
\* step of an attempt that reached 70, by gaining that quiz's id.
C5_FailedFinishFrame ==
    /\ [][(FinishStep /\ score.num < 70 * score.den) =>
            UNCHANGED <<completedQuizzes, completedLessons>>]_vars
    /\ [][completedQuizzes' # completedQuizzes =>
            /\ FinishStep /\ score.num >= 70 * score.den
            /\ completedQuizzes' = completedQuizzes \cup {currentQuiz}]_vars

\* a failed attempt has been finished: the lessons stay completed, the quiz
\* is not
C5_Witness ==
    /\ reported = "failed" /\ MainInterface
    /\ completedLessons # {} /\ completedQuizzes = {}

---------------------------------------------------------------------------
(* Claims about the landing scene (SpecScene, SpecPark) *)

\* a step that runs moveCharacter while the scene is mounted
TickStep == mounted /\ ticks' = ticks + 1

HeldUp    == "ArrowUp" \in keysPressed \/ "w" \in keysPressed
HeldDown  == "ArrowDown" \in keysPressed \/ "s" \in keysPressed
HeldLeft  == "ArrowLeft" \in keysPressed \/ "a" \in keysPressed
HeldRight == "ArrowRight" \in keysPressed \/ "d" \in keysPressed

\* the position p changed by 2 on each axis for each held direction
Candidate(p) ==
    [x |-> p.x + (IF HeldRight THEN 2 ELSE 0) - (IF HeldLeft THEN 2 ELSE 0),
     y |-> p.y + (IF HeldDown THEN 2 ELSE 0) - (IF HeldUp THEN 2 ELSE 0)]

\* the intervals [a1, a2] and [b1, b2] share more than a point
Overlap(a1, a2, b1, b2) == Max(a1, b1) < Min(a2, b2)

\* the actor box at p overlaps no obstacle and p is within the scene bounds
Free(p) ==
    /\ \A o \in obstacles :
          ~(/\ Overlap(p.x - 8, p.x + 8, o.x, o.x + o.width)
            /\ Overlap(p.y - 16, p.y + 8, o.y, o.y + o.height))
    /\ 20 <= p.x /\ p.x <= 606
    /\ 100 <= p.y /\ p.y <= 240

\* C7: on every tick that runs with a movement key held, the candidate (the
\* position the running frame callback holds, changed by 2 per held
\* direction) becomes the position if it is free, and otherwise the tick is
\* a rejected one that leaves the position as it was.
C7_MoveAcceptedIffFree ==
    [][(TickStep /\ (HeldUp \/ HeldDown \/ HeldLeft \/ HeldRight)) =>
          \E cb \in rafPending :
              IF Free(Candidate(cb.pos))
              THEN characterPos' = Candidate(cb.pos) /\ lastTick' = "accepted"
              ELSE characterPos' = characterPos /\ lastTick' = "rejected"]_vars

\* at (22, 240) the box touches tree1 without overlapping it: the actor got
\* there, and the move further right was rejected
C7_Witness ==
    /\ mounted /\ lastTick = "rejected"
    /\ characterPos = [x |-> 22, y |-> 240]
    /\ keysPressed = {"d"}
    /\ ~Free(Candidate(characterPos))

InZone(p) == 280 < p.x /\ p.x < 346 /\ 180 < p.y /\ p.y < 260

\* C8: after every tick the prompt flag equals whether the actor's position
\* lies strictly inside the trigger zone.
C8_PromptTracksZone ==
    [][TickStep => (showPrompt' = InZone(characterPos'))]_vars

\* the prompt is on the screen and the listeners see it
PromptVisible == mounted /\ effect.prompt

\* C9: a press of Enter while the prompt is visible calls onEnterPortal once;
\* after a call there is no further call, however long the key is held and
\* whatever key events follow; and no step taken while the prompt is not
\* visible calls it.
C9_EnterOncePerPress ==
    /\ [][(PromptVisible /\ ~enterDown /\ enterDown') =>
            enterCalls' = enterCalls + 1]_vars
    /\ [][enterCalls > 0 => enterCalls' = enterCalls]_vars
    /\ [][~PromptVisible => enterCalls' = enterCalls]_vars

\* onEnterPortal has been called after one frame, the portal is shown and
\* Enter is still held
C9_Witness ==
    /\ enterCalls = 1 /\ showPortal /\ ~mounted /\ enterDown /\ ticks = 1

\* C10: once the landing scene has unmounted no frame request is pending
\* and moveCharacter does not run again.
C10_NoTickAfterUnmount ==
    /\ [](~mounted => rafPending = {})
    /\ [][~mounted => ticks' = ticks]_vars

\* the scene has unmounted after the frames the bound allows, the last of
\* them an accepted move
C10_Witness ==
    /\ ~mounted /\ showPortal /\ ticks = MaxTicks /\ lastTick = "accepted"

---------------------------------------------------------------------------
(* Claims about load failures (SpecPortal) *)

\* C11: a quiz response with an empty or missing question list puts the
\* quiz viewer into the failed-to-load view (the error with Go Back), as a
\* transport failure does, and never into the question view.
C11_EmptyQuizIsLoadFailure ==
    (showPortal /\ currentQuiz # NullId /\ ~quizLoading /\ questions = << >>)
        => (QuizFailedView /\ ~QuizView)

\* a fetch of a lesson or of a quiz ends in the catch branch
LessonFetchFails == LessonMounted /\ lessonLoading /\ lessonError' # NoError
QuizFetchFails == QuizMounted /\ quizLoading /\ quizError' # NoError

\* the curriculum tree and both completion sets stay as they are
ProgressKept ==
    UNCHANGED <<phases, completedLessons, completedQuizzes>>

\* C12: a failed lesson or quiz fetch puts that viewer into its
\* failed-to-load view with the tree and both completion sets unchanged;
\* in that view Go Back is offered, and the only step from it returns to
\* the main interface, again with the tree and the sets unchanged.
C12_LoadFailureIsLocal ==
    /\ [][LessonFetchFails => (LessonFailedView' /\ ProgressKept)]_vars
    /\ [][QuizFetchFails => (QuizFailedView' /\ ProgressKept)]_vars
    /\ [](LessonFailedView => ENABLED LessonBack)
    /\ [](QuizFailedView => ENABLED QuizBack)
    /\ [][(LessonFailedView \/ QuizFailedView) =>
            (MainInterface' /\ ProgressKept)]_vars

\* a quiz has failed to load while lessons and another quiz are recorded
C12_Witness ==
    /\ QuizFailedView /\ quizError = FetchFailed
    /\ completedLessons # {} /\ completedQuizzes # {} /\ phases # << >>

---------------------------------------------------------------------------
(* Claims about the growth of progress (SpecProgress, SpecPortal) *)

\* a <= b for two fractions with positive denominators
FractionLeq(a, b) == a.num * b.den <= b.num * a.den

\* C13: while the curriculum tree stays the same, no lesson-complete or
\* quiz-finish event, for any id and in any order, makes getTotalProgress
\* smaller.
C13_ProgressNeverDecreases ==
    [][(~loading /\ phases' = phases) =>
          FractionLeq(getTotalProgress,
                      getTotalProgressIn(phases', completedLessons',
                                         completedQuizzes'))]_vars

\* a module's quiz was passed before its lessons were all completed, and
\* the progress is strictly between 0 and 100
C13_Witness ==
    /\ \E s \in QuizSlots :
          /\ ModuleAt(s).quiz.id \in completedQuizzes
          /\ ~isQuizUnlocked(ModuleAt(s))
    /\ completedLessons \cap LessonIdsOf(phases) # {}
    /\ 0 < getTotalProgress.num
    /\ getTotalProgress.num < 100 * getTotalProgress.den

\* the step of Mark as Complete in a loaded lesson
LessonCompleteStep ==
    /\ LessonMounted /\ ~lessonLoading /\ lessonError = NoError
    /\ currentLesson' = NullId

\* the finish step of an attempt that reached 70
PassingFinishStep == ResultsView /\ FinishStep /\ passed(score)

\* C14: on every step of the portal both completion sets keep all their
\* elements; the completed-lessons set changes only on a lesson-complete
\* step, gaining the open lesson, and the completed-quizzes set only on a
\* passing finish step, gaining the open quiz.
C14_CompletionSetsOnlyGrow ==
    [][/\ completedLessons \subseteq completedLessons'
       /\ completedQuizzes \subseteq completedQuizzes'
       /\ completedLessons' # completedLessons =>
            (LessonCompleteStep
                /\ completedLessons' = completedLessons \cup {currentLesson})
       /\ completedQuizzes' # completedQuizzes =>
            (PassingFinishStep
                /\ completedQuizzes' = completedQuizzes \cup {currentQuiz})]_vars

\* back on the training tab with two quizzes passed and two or more
\* lessons completed
C14_Witness ==
    /\ Cardinality(completedQuizzes) = 2 /\ Cardinality(completedLessons) >= 2
    /\ MainInterface /\ activeTab = "training"

\* C15: for every completed-lessons set the portal can hold and every
\* lesson id, recording the id a second time gives the same set, of the
\* same size, as recording it once.
C15_LessonCompleteIdempotent ==
    \A id \in LessonIdsOf(phases) \cup {ForeignLesson} :
        LET once == withLesson(completedLessons, id)
            twice == withLesson(once, id)
        IN  twice = once /\ Cardinality(twice) = Cardinality(once)

\* lessons of the tree and a foreign id have been recorded, some lesson of
\* the tree has not
C15_Witness ==
    /\ ForeignLesson \in completedLessons
    /\ Cardinality(completedLessons \cap LessonIdsOf(phases)) = 2
    /\ LessonIdsOf(phases) \ completedLessons # {}

---------------------------------------------------------------------------
(* Claims about retrying a quiz (SpecPortal) *)

\* the results view of a failed attempt
FailedResults == ResultsView /\ score.num < 70 * score.den

\* the step of Try Again: the results close and the quiz stays open
RetryStep == FailedResults /\ ~showResults' /\ currentQuiz' = currentQuiz

\* C16: the retry step of a failed attempt leads to the question view at
\* index 0 with no recorded answer and the same questions, and retry is
\* offered in the results view of every failed attempt, however many
\* attempts came before.
C16_RetryResetsSession ==
    /\ [][RetryStep =>
            /\ QuizView'
            /\ currentQuestionIndex' = 0
            /\ answers' = EmptyAnswers
            /\ questions' = questions]_vars
    /\ [](FailedResults => ENABLED RetryQuiz)

\* a 4-question attempt that scored 50 has been retried: the question view
\* is at index 0 with no answers, the score of the failed attempt still set
C16_Witness ==
    /\ QuizView /\ currentQuestionIndex = 0 /\ answers = EmptyAnswers
    /\ Len(questions) = 4 /\ score = [num |-> 200, den |-> 4]

---------------------------------------------------------------------------
(* Claims about the effects of one frame (SpecScene, SpecPark) *)

HeldAny == HeldUp \/ HeldDown \/ HeldLeft \/ HeldRight

\* C17: a tick on which no movement key is held, or whose candidate (from
\* the position the running frame callback holds) is not free, leaves the
\* walking flag false and the position as it was on both axes.
C17_RejectedOrIdleTick ==
    [][TickStep =>
          \E cb \in rafPending :
              (~HeldAny \/ ~Free(Candidate(cb.pos))) =>
                  (~isWalking' /\ characterPos' = characterPos)]_vars

\* at (22, 240) with up and right held the diagonal candidate overlaps
\* tree1 and was rejected, though the move up alone is free
C17_Witness ==
    /\ mounted /\ lastTick = "rejected" /\ ~isWalking
    /\ characterPos = [x |-> 22, y |-> 240]
    /\ keysPressed = {"w", "d"}
    /\ ~Free(Candidate(characterPos))
    /\ Free([x |-> characterPos.x, y |-> characterPos.y - 2])

\* the direction of the last held one in the order up, down, left, right
LastHeldDirection ==
    IF HeldRight THEN "right" ELSE IF HeldLeft THEN "left"
    ELSE IF HeldDown THEN "down" ELSE "up"

\* C18: a tick with a movement key held whose candidate is free makes the
\* candidate the position, sets the walking flag, and faces the actor in
\* the direction of the last held one in the order up, down, left, right.
C18_AcceptedMove ==
    [][(TickStep /\ HeldAny) =>
          \E cb \in rafPending :
              Free(Candidate(cb.pos)) =>
                  /\ characterPos' = Candidate(cb.pos)
                  /\ isWalking'
                  /\ direction' = LastHeldDirection]_vars

\* up and right were held on an accepted move: the actor went up and to
\* the right and faces right
C18_Witness ==
    /\ mounted /\ lastTick = "accepted" /\ isWalking
    /\ keysPressed = {"w", "d"}
    /\ characterPos = [x |-> 302, y |-> 198]
    /\ direction = "right"

---------------------------------------------------------------------------
(* Claims about what the unlock functions read (SpecProgress) *)

\* every completed-lessons set over the lesson ids of the tree and a
\* foreign id
OtherLessonSets == SUBSET (LessonIdsOf(phases) \cup {ForeignLesson})

\* the lesson ids of module m
LessonIdsIn(m) == {m.lessons[i].id : i \in 1..Len(m.lessons)}

\* C19: for every lesson of the tree, any completed-lessons set that agrees
\* with the portal's on the lesson's immediate predecessor gives the same
\* isLessonUnlocked result, whatever else the two sets hold; for every
\* module, any set that agrees with the portal's on the module's own
\* lessons gives the same isQuizUnlocked result.  Neither function reads
\* the completed-quizzes set.
C19_UnlockReadsOnlyPredecessor ==
    \A other \in OtherLessonSets :
        /\ \A l \in LessonSlots :
              LET module == ModuleAt(l[1])
                  lesson == module.lessons[l[2]]
                  agree == \/ l[2] = 1
                           \/ (module.lessons[l[2] - 1].id \in completedLessons
                                 <=> module.lessons[l[2] - 1].id \in other)
              IN  agree => (isLessonUnlockedIn(other, lesson, module)
                              <=> isLessonUnlocked(lesson, module))
        /\ \A s \in ModuleSlots :
              LET module == ModuleAt(s)
              IN  (other \cap LessonIdsIn(module)
                      = completedLessons \cap LessonIdsIn(module))
                  => (isQuizUnlockedIn(other, module) <=> isQuizUnlocked(module))

\* the second lesson of a three-lesson module is completed and the first
\* is not: the third is unlocked; a lesson of another module is completed
C19_Witness ==
    /\ \E s \in ModuleSlots :
          LET module == ModuleAt(s)
          IN  /\ Len(module.lessons) = 3
              /\ module.lessons[2].id \in completedLessons
              /\ module.lessons[1].id \notin completedLessons
              /\ isLessonUnlocked(module.lessons[3], module)
              /\ completedLessons \ LessonIdsIn(module) # {}
    /\ completedQuizzes # {}

---------------------------------------------------------------------------
(* Claims about key events between frames (SpecPark) *)

\* the directions held according to the browser's key events
DownUp    == "arrowup" \in keyLog.down \/ "w" \in keyLog.down
DownDown  == "arrowdown" \in keyLog.down \/ "s" \in keyLog.down
DownLeft  == "arrowleft" \in keyLog.down \/ "a" \in keyLog.down
DownRight == "arrowright" \in keyLog.down \/ "d" \in keyLog.down

\* the position p changed by 2 per direction whose key is down
CandidateOfEvents(p) ==
    [x |-> p.x + (IF DownRight THEN 2 ELSE 0) - (IF DownLeft THEN 2 ELSE 0),
     y |-> p.y + (IF DownDown THEN 2 ELSE 0) - (IF DownUp THEN 2 ELSE 0)]

\* C20: in every interleaving of key events, frames and commits, the
\* directions moveCharacter finds held are those with a key whose latest
\* event is a keydown; a tick moves the actor nowhere but to the candidate
\* of the keys down at that moment, and is idle exactly when none is down;
\* so a tick that follows a key pressed and released since the tick before,
\* with no key down, leaves the position as it was.
C20_TickReadsKeysHeldNow ==
    /\ [](mounted => /\ HeldUp <=> DownUp
                     /\ HeldDown <=> DownDown
                     /\ HeldLeft <=> DownLeft
                     /\ HeldRight <=> DownRight)
    /\ [][TickStep =>
            \E cb \in rafPending :
                /\ (lastTick' = "idle") <=> (keyLog.down = {})
                /\ characterPos' \in {characterPos, CandidateOfEvents(cb.pos)}
                /\ (lastTick' = "accepted")
                      => characterPos' = CandidateOfEvents(cb.pos)]_vars
    /\ [][(TickStep /\ keyLog.tap = "pressed" /\ keyLog.down = {}) =>
            (characterPos' = characterPos /\ ~isWalking')]_vars

\* the second frame ran after a key was pressed and released since the
\* first: the actor stands where the first frame took it
C20_Witness ==
    /\ mounted /\ keyLog.tap = "ticked" /\ lastTick = "idle"
    /\ ticks = 2 /\ characterPos = [x |-> 300, y |-> 198]
    /\ keysPressed = {}

---------------------------------------------------------------------------
(* Claims about where the actor can stand (SpecWalk) *)

\* C21: wherever the actor gets from (300, 200), its position is within
\* 20 <= x <= 606 and 100 <= y <= 240 and its box overlaps no obstacle.
C21_ActorStaysFree == mounted => Free(characterPos)

\* the actor has walked from (300, 200) to the top right corner of the
\* scene and stands there at rest, facing right
C21_Witness ==
    /\ mounted /\ characterPos = [x |-> 606, y |-> 100]
    /\ direction = "right" /\ lastTick = "idle"
    /\ ~isWalking /\ ~showPrompt /\ keysPressed = {}

---------------------------------------------------------------------------
(* Claims about the states the portal's own actions reach (SpecPortal) *)

\* C22: in every state the portal reaches through its own actions, a
\* completed lesson of a module has all the lessons before it in the
\* module's list completed too, and a module whose quiz is in the
\* completed-quizzes set has all its lessons completed.
C22_CompletedLessonsArePrefix ==
    \A s \in ModuleSlots :
        LET module == ModuleAt(s)
        IN  /\ \A i \in 1..Len(module.lessons) :
                  module.lessons[i].id \in completedLessons =>
                      \A j \in 1..i : module.lessons[j].id \in completedLessons
            /\ (module.quiz # NoQuiz /\ module.quiz.id \in completedQuizzes) =>
                  \A i \in 1..Len(module.lessons) :
                      module.lessons[i].id \in completedLessons

\* two of the three lessons of a module are completed, its quiz is not,
\* and the quiz of the other module is
C22_Witness ==
    /\ MainInterface /\ completedQuizzes # {}
    /\ \E s \in ModuleSlots :
          LET module == ModuleAt(s)
          IN  /\ Len(module.lessons) = 3
              /\ module.lessons[2].id \in completedLessons
              /\ module.lessons[3].id \notin completedLessons
              /\ module.quiz.id \notin completedQuizzes

\* a quiz with one question or more is loaded and on screen
QuizSession ==
    QuizMounted /\ ~quizLoading /\ quizError = NoError /\ Len(questions) >= 1

\* C23: while a quiz of n >= 1 questions is on screen the question index is
\* within 0..n-1, whatever Previous, Next, answer and retry steps were
\* taken, and every step that submits the quiz starts with the index on
\* the last question.
C23_QuestionIndexInRange ==
    /\ [](QuizSession =>
            (0 <= currentQuestionIndex /\ currentQuestionIndex <= Len(questions) - 1))
    /\ [][(QuizSession /\ ~showResults /\ showResults') =>
            currentQuestionIndex = Len(questions) - 1]_vars

\* after a retry of a 4-question quiz the session is on the last question
\* again with three answers recorded; Next is not offered there
C23_Witness ==
    /\ QuizView /\ Len(questions) = 4 /\ currentQuestionIndex = 3
    /\ score.den = 4 /\ Cardinality(DOMAIN answers) = 3
    /\ ~ENABLED NextQuestion

---------------------------------------------------------------------------
(* Claims about the frame requests of the landing scene (SpecPark) *)

\* the effect runs again: its cleanup, then its body
EffectRerunStep ==
    mounted /\ mounted' /\ ticks' = ticks /\ animationFrameRef' # animationFrameRef

\* C24: while the landing scene is mounted exactly one frame request is
\* pending, and it is the one whose id the ref holds; each tick leaves
\* exactly one pending; and when the effect runs again after a tick changed
\* position, direction or prompt, the request pending before it, the one
\* the tick made, is cancelled and a single new one is pending.
C24_OnePendingFrame ==
    /\ [](mounted => /\ Cardinality(rafPending) = 1
                     /\ \A r \in rafPending : r.id = animationFrameRef)
    /\ [][TickStep => Cardinality(rafPending') = 1]_vars
    /\ [][EffectRerunStep =>
            /\ DepsChanged
            /\ rafPending \cap rafPending' = {}
            /\ \A r \in rafPending : \A q \in rafPending' : q.id # r.id
            /\ Cardinality(rafPending') = 1]_vars

\* after two frames, the second an accepted move, the effect has run
\* again: one request is pending, made with the new position
C24_Witness ==
    /\ mounted /\ ticks = 2 /\ lastTick = "accepted" /\ ~DepsChanged
    /\ characterPos # [x |-> 300, y |-> 200]
    /\ rafPending = {[id |-> animationFrameRef, pos |-> characterPos, dir |-> direction]}

===========================================================================
